---- MODULE Spec2Model ----
(***************************************************************************)
(* Model of the batch engine of lut_batch.py: process_directory() run by   *)
(* the main thread, the ThreadPoolExecutor it builds, and process_video()  *)
(* / apply_lut_to_video() run by each worker thread.                       *)
(*                                                                         *)
(* A `with print_lock:` block is two steps (acquire; body and release), so *)
(* that the lock's holder is a state of the model.  Statements that touch  *)
(* nothing shared (building cmd, the ffprobe duration query, reading a     *)
(* progress line that triggers no refresh) are folded into the step that   *)
(* follows them.                                                           *)
(***************************************************************************)
EXTENDS Integers, Sequences, FiniteSets, TLC

\* ---------------------------------------------------------------- bounds
\* Largest number of video files found in the input directory.
MaxFiles == 3
\* Largest value of --threads and of os.cpu_count().
MaxThreads == 2
\* Longest listing (in encoder tokens) the probe may print.
MaxProbeLen == 4
\* Largest number of video files in the runs checked for liveness.
LiveFiles == 2

VARIABLES
    mainPc,            \* position of the main thread in process_directory
    use_gpu,           \* parameter use_gpu
    probe,             \* what `ffmpeg -encoders` does when invoked
    probe_calls,       \* number of invocations of the probe so far
    encoders,          \* dict returned by detect_hardware_encoders
    hw_encoder,        \* chosen backend, "None" for software
    video_files,       \* the discovered files, in glob order
    requested_workers, \* max_workers after line 302, before the cap of line 303
    max_workers,       \* max_workers after line 303
    cursor,            \* "visible" | "hidden"
    screen_cleared,    \* TRUE once the setup block of lines 310-321 has run
    print_lock,        \* 0 when free, else the worker thread holding it
    work_queue,        \* the executor's FIFO of submitted, not yet taken items
    futures,           \* per file index: state of its Future
    wpc,               \* per worker thread: position in process_video
    wjob,              \* per worker thread: file index it is processing (0: none)
    return_code,       \* per worker thread: return_code of its subprocess (0 outside a job)
    processed_files,   \* list of output paths
    failed_files,      \* list of input files
    spawns,            \* per file index: number of Popen calls made for it
    exit_code,         \* per file index: "none" | "ok" | "error" (subprocess exit)
    interrupted,       \* TRUE once KeyboardInterrupt was raised in the main thread
    task_line,         \* per worker thread: task_line of the job it is processing (0: none)
    live_summary,      \* <<Completed, Failed>> last written on the summary line (<<>>: none)
    args,              \* the parsed command line and what the file system says of it
    platform,          \* "posix" | "nt": how pathlib compares names
    listing,           \* the names in the input directory, in listing order
    rerun_files,       \* video_files of a second run over the same directory
    process,           \* the encoder subprocess of one job and its two pipes
    reader,            \* position of that job's worker in lines 151-249
    duration,          \* apply_lut_to_video: duration, in microseconds (0: None)
    current_time,      \* apply_lut_to_video: current_time, in microseconds
    frame_count,       \* apply_lut_to_video: frame_count
    current_fps,       \* apply_lut_to_video: current_fps, in tenths (-1: unbound)
    progress,          \* apply_lut_to_video: progress last displayed (-1: none yet)
    parser,            \* "reading" | "raised": the read loop of lines 151-225
    line,              \* apply_lut_to_video: the line last returned by readline
    cmd                \* apply_lut_to_video: the encoder settings put in cmd

vars == <<mainPc, use_gpu, probe, probe_calls, encoders, hw_encoder, video_files,
          requested_workers, max_workers, cursor, screen_cleared, print_lock,
          work_queue, futures, wpc, wjob, return_code, processed_files,
          failed_files, spawns, exit_code, interrupted, task_line, live_summary, args,
          platform, listing, rerun_files, process, reader, duration, current_time,
          frame_count, current_fps, progress, parser, line, cmd>>

\* State of main() and of the parts of the program examined on their own;
\* the batch engine never writes it.
listingVars == <<platform, listing, rerun_files>>

pipeVars == <<process, reader>>

parserVars == <<duration, current_time, frame_count, current_fps, progress, parser, line>>

auxVars == <<args, listingVars, pipeVars, parserVars, cmd>>

\* ------------------------------------------------------ capability probe
\* Keys of the encoders dict (lines 15-20).
Backends == {"nvidia", "amd", "qsv", "videotoolbox"}

\* The identifier each key is looked up by (lines 28-35).  The listing is a
\* sequence of space-delimited words; `" h264_x " in output` is the presence
\* of the word h264_x.
EncoderToken(b) ==
    CASE b = "nvidia" -> "h264_nvenc"
      [] b = "amd" -> "h264_amf"
      [] b = "qsv" -> "h264_qsv"
      [] b = "videotoolbox" -> "h264_videotoolbox"

Tokens == {EncoderToken(b) : b \in Backends} \cup {"libx264"}

NoEncoders == [b \in Backends |-> FALSE]

Contains(output, token) == \E i \in 1..Len(output) : output[i] = token

detect_hardware_encoders_all_set(p) ==
    [b \in Backends |-> ~p.ok]

\* detect_hardware_encoders (lines 13-40): the dict starts all False; a
\* failing check_output is caught and the untouched dict is returned.
detect_hardware_encoders(p) ==
    IF p.ok
    THEN [b \in Backends |-> Contains(p.out, EncoderToken(b))]
    ELSE NoEncoders

select_encoder_qsv_first(enc) ==
    IF enc["nvidia"] THEN "nvidia"
    ELSE IF enc["amd"] THEN "amd"
    ELSE IF enc["qsv"] THEN "qsv"
    ELSE IF enc["videotoolbox"] THEN "videotoolbox"
    ELSE "None"

\* The if/elif cascade of process_directory (lines 259-272).
select_encoder(enc) ==
    IF enc["nvidia"] THEN "nvidia"
    ELSE IF enc["amd"] THEN "amd"
    ELSE IF enc["videotoolbox"] THEN "videotoolbox"
    ELSE IF enc["qsv"] THEN "qsv"
    ELSE "None"

SeqsUpTo(S, n) == UNION {[1..k -> S] : k \in 0..n}

ProbeFailure == [ok |-> FALSE, out |-> <<>>]

\* Every outcome of the probe: it fails, or prints a listing.
AllProbes == {ProbeFailure} \cup {[ok |-> TRUE, out |-> o] : o \in SeqsUpTo(Tokens, MaxProbeLen)}

\* The outcomes the batch runs are explored with.
BatchProbes == {ProbeFailure, [ok |-> TRUE, out |-> <<"libx264", "h264_qsv", "h264_videotoolbox">>]}

\* ------------------------------------------------------------ data model
\* apply_lut_to_video's output_path (lines 44-46): the input's name with
\* "_LUT" inserted before the extension, in the same directory.
OutputPath(video_file) == [input |-> video_file, suffix |-> "_LUT"]

NoOutput == [input |-> 0, suffix |-> "None"]

ReturnValueIgnoringExit(rc, video_file) == OutputPath(video_file)

\* What apply_lut_to_video returns (lines 240-251): None after a non-zero
\* exit, the output path otherwise.
ReturnValue(rc, video_file) ==
    IF rc # 0 THEN NoOutput ELSE OutputPath(video_file)

total_files == Len(video_files)

\* process_video, line 328: the screen line of the job with file_index i;
\* lines 1-2 hold the header.
HeaderOffset == 3

\* The line taken from the quotient instead of the remainder.
TaskLineDiv(i) == (i \div max_workers) + HeaderOffset

TaskLine(i) == (i % max_workers) + HeaderOffset

\* process_video, line 344: the screen line of the live summary.
summary_line == max_workers + 4

FileIndexes == 1..total_files

ThreadsOneMore(n) == 1..(n + 1)

\* The threads of ThreadPoolExecutor(max_workers=n) (line 354).
Threads(n) == 1..n

Workers == DOMAIN wpc

submit_twice(queue, i) == queue \o <<i, i>>

\* executor.submit (line 355) puts one work item at the tail of the queue.
submit(queue, i) == Append(queue, i)

NextItemLifo(queue) == Len(queue)

\* Position in the queue of the item a free worker thread takes: its head.
NextItem(queue) == 1

RemoveAt(queue, k) == [i \in 1..(Len(queue) - 1) |-> IF i < k THEN queue[i] ELSE queue[i + 1]]

FutureDone(i) == futures[i] \in {"finished", "raised"}

ThreadsJoined == work_queue = <<>> /\ \A w \in Workers : wpc[w] = "idle"

PoolBarrierFirstCompleted ==
    \E i \in 1..Len(futures) : FutureDone(i)

\* Leaving the `with ThreadPoolExecutor` block of lines 354-356:
\* concurrent.futures.wait(futures) returns when every future is done and
\* the executor's __exit__ joins every worker thread.
PoolBarrier ==
    /\ \A i \in 1..Len(futures) : FutureDone(i)
    /\ ThreadsJoined

\* ------------------------------------------------------------ main()
\* The letters file names are written with, as <<lower case, upper case>>;
\* every other character has no case.
Letters == {<<"a", "A">>, <<"b", "B">>, <<"c", "C">>, <<"e", "E">>, <<"i", "I">>,
            <<"k", "K">>, <<"l", "L">>, <<"m", "M">>, <<"o", "O">>, <<"p", "P">>,
            <<"t", "T">>, <<"u", "U">>, <<"v", "V">>, <<"x", "X">>}

LowerOf(c) ==
    IF \E l \in Letters : l[2] = c THEN (CHOOSE l \in Letters : l[2] = c)[1] ELSE c

UpperOf(c) ==
    IF \E l \in Letters : l[1] = c THEN (CHOOSE l \in Letters : l[1] = c)[2] ELSE c

\* str.lower() on a name, a sequence of characters.
lower(name) == [k \in DOMAIN name |-> LowerOf(name[k])]

\* str.upper().
upper(name) == [k \in DOMAIN name |-> UpperOf(name[k])]

\* str.endswith(suffix).
endswith(name, suffix) ==
    /\ Len(name) >= Len(suffix)
    /\ SubSeq(name, Len(name) - Len(suffix) + 1, Len(name)) = suffix

\* The suffix of line 398.
CubeSuffix == <<".", "c", "u", "b", "e">>

\* Limits of line 403 and the defaults of argparse (lines 379, 381).
CrfMin == 0
CrfMax == 51
DefaultCrf == 23
DefaultQuality == "medium"

\* The choices of --quality (line 378).
Qualities == {"ultrafast", "superfast", "veryfast", "faster", "fast", "medium",
              "slow", "slower", "veryslow"}

\* LUT file names given on the command line: the suffix in several
\* casings, and names that lack it.
LutNames == {<<"l", ".", "c", "u", "b", "e">>,
             <<"l", ".", "C", "U", "B", "E">>,
             <<"l", ".", "C", "u", "b", "E">>,
             <<"l", ".", "c", "u", "b">>,
             <<"c", "u", "b", "e">>,
             <<"l", ".", "c", "u", "b", "e", ".", "l">>,
             <<".", "c", "u", "b", "e">>}

\* --crf values at and around the limits.
CrfChoices == {CrfMin - 1, CrfMin, CrfMax, CrfMax + 1}

DefaultArgs == [input_isdir |-> TRUE, lut_file |-> <<"l", ".", "c", "u", "b", "e">>,
                lut_isfile |-> TRUE, crf |-> DefaultCrf, quality |-> DefaultQuality]

\* Command lines and file-system answers main() is run with.
AllArgs == [input_isdir : BOOLEAN, lut_file : LutNames, lut_isfile : BOOLEAN,
            crf : CrfChoices, quality : {DefaultQuality}]

\* The test of line 398 with `and` in place of `or`.
lut_rejected_if_both(a) ==
    ~a.lut_isfile /\ ~endswith(lower(a.lut_file), CubeSuffix)

\* The test of line 398.
lut_rejected(a) ==
    ~a.lut_isfile \/ ~endswith(lower(a.lut_file), CubeSuffix)

\* The three tests of main(), lines 393-405, in order.
main_error(a) ==
    IF ~a.input_isdir THEN "input_dir"
    ELSE IF lut_rejected(a) THEN "lut_file"
    ELSE IF a.crf < CrfMin \/ a.crf > CrfMax THEN "crf"
    ELSE "none"

\* ------------------------------------------------------- file discovery
\* video_extensions, line 277.
video_extensions == << <<".", "m", "p", "4">>, <<".", "m", "o", "v">>,
                       <<".", "a", "v", "i">>, <<".", "m", "k", "v">> >>

Platforms == {"posix", "nt"}

\* How pathlib compares a name with a pattern: as written on POSIX, with
\* case folded on Windows.
normcase(name) == IF platform = "nt" THEN lower(name) ELSE name

\* Path(input_dir).glob("*" + ext) over a listing, in listing order: the
\* names the pattern matches.
glob(names, ext) ==
    SelectSeq(names, LAMBDA name : endswith(normcase(name), normcase(ext)))

\* Lines 283-286: for each extension, the matches of the extension as
\* written and then of its upper-case form.
RECURSIVE discover(_, _)
discover(names, k) ==
    IF k > Len(video_extensions) THEN <<>>
    ELSE glob(names, video_extensions[k]) \o glob(names, upper(video_extensions[k]))
         \o discover(names, k + 1)

\* os.path.splitext: the extension starts at the last dot, unless the name
\* has none or only leading ones.
LastDot(name) ==
    IF \E k \in DOMAIN name : name[k] = "."
    THEN CHOOSE k \in DOMAIN name : name[k] = "." /\ \A j \in DOMAIN name : name[j] = "." => j <= k
    ELSE 0

splitext(name) ==
    LET d == LastDot(name) IN
      IF d = 0 \/ \A j \in 1..d : name[j] = "."
      THEN <<name, <<>> >>
      ELSE <<SubSeq(name, 1, d - 1), SubSeq(name, d, Len(name))>>

\* Lines 44-46: f"{name}_LUT{ext}".
output_path(video_name) ==
    splitext(video_name)[1] \o <<"_", "L", "U", "T">> \o splitext(video_name)[2]

\* ------------------------------------------------------------------ Init
\* The batch engine before its first statement; the auxiliary state is
\* set by each specification.
BatchInitWith(pc, probes, chosen) ==
    /\ mainPc = pc
    /\ use_gpu \in BOOLEAN
    /\ probe \in probes
    /\ probe_calls = 0
    /\ encoders = NoEncoders
    /\ hw_encoder \in chosen
    /\ video_files = <<>>
    /\ requested_workers = 0
    /\ max_workers = 0
    /\ cursor = "visible"
    /\ screen_cleared = FALSE
    /\ print_lock = 0
    /\ work_queue = <<>>
    /\ futures = <<>>
    /\ wpc = <<>>
    /\ wjob = <<>>
    /\ task_line = <<>>
    /\ return_code = <<>>
    /\ processed_files = <<>>
    /\ live_summary = <<>>
    /\ failed_files = <<>>
    /\ spawns = <<>>
    /\ exit_code = <<>>
    /\ interrupted = FALSE

BatchInit(pc, probes) == BatchInitWith(pc, probes, {"None"})

\* process_directory is entered with a valid command line.
\* No directory content is looked at by name.
NoListing ==
    /\ platform = "posix"
    /\ listing = <<>>
    /\ rerun_files = <<>>

\* No subprocess is followed through its pipes.
NoProcess ==
    /\ process = [left |-> <<>>, stdout |-> 0, stderr |-> 0, alive |-> FALSE]
    /\ reader = "none"

\* A line is its key (what it starts with, up to "=") and the payload
\* line.split("=")[1].strip(): a decimal integer, a decimal with a
\* fraction (val in tenths), "N/A", an integer too large for a float, or
\* anything else.
NoLine == [key |-> "other", payload |-> [kind |-> "junk", val |-> 0]]

\* The locals of the read loop before line 143.
NoParser ==
    /\ line = NoLine
    /\ duration = 0
    /\ current_time = 0
    /\ frame_count = 0
    /\ current_fps = -1
    /\ progress = -1
    /\ parser = "none"

\* cmd before line 60.
NoCommand == cmd = <<>>

InitWith(probes) ==
    /\ BatchInit("detect", probes)
    /\ args = DefaultArgs
    /\ NoListing /\ NoProcess /\ NoParser /\ NoCommand

Init == InitWith(BatchProbes)

\* ----------------------------------------------------------- main thread
mainVars == <<mainPc, use_gpu, probe, probe_calls, encoders, hw_encoder, video_files,
              requested_workers, max_workers, cursor, screen_cleared, interrupted,
              auxVars>>

poolVars == <<work_queue, futures, wpc, wjob, task_line, return_code, live_summary,
              processed_files,
              failed_files, spawns, exit_code, print_lock>>

\* main(), lines 392-408: the first failing test prints its error and
\* returns; otherwise process_directory is called.
ValidateArgs ==
    /\ mainPc = "main"
    /\ mainPc' = (IF main_error(args) = "none" THEN "detect" ELSE "rejected")
    /\ UNCHANGED <<use_gpu, probe, probe_calls, encoders, hw_encoder, video_files,
                   requested_workers, max_workers, cursor, screen_cleared, interrupted>>
    /\ UNCHANGED auxVars
    /\ UNCHANGED poolVars

\* process_directory, lines 255-274: detection and backend selection.
DetectEncoders ==
    /\ UNCHANGED auxVars
    /\ mainPc = "detect"
    /\ IF use_gpu
       THEN /\ probe_calls' = probe_calls + 1
            /\ encoders' = detect_hardware_encoders(probe)
            /\ hw_encoder' = select_encoder(encoders')
       ELSE /\ hw_encoder' = "None"
            /\ UNCHANGED <<probe_calls, encoders>>
    /\ mainPc' = "discover"
    /\ UNCHANGED <<use_gpu, probe, video_files, requested_workers, max_workers,
                   cursor, screen_cleared, interrupted>>
    /\ UNCHANGED poolVars

\* The test of line 288 left out: the batch goes on with no file.
always_some_files(n) == FALSE

\* Line 288: `if not video_files`.
no_video_files(n) == n = 0

\* process_directory, lines 276-304: the directory holds n matching files;
\* none ends the batch (line 290); otherwise the worker count is the
\* --threads value, or os.cpu_count() when none was given, capped by n.
DiscoverFilesUpTo(limit) ==
    /\ UNCHANGED auxVars
    /\ mainPc = "discover"
    /\ \E n \in 0..limit :
         /\ video_files' = [i \in 1..n |-> i]
         /\ IF no_video_files(n)
            THEN /\ mainPc' = "returned"
                 /\ UNCHANGED <<requested_workers, max_workers, spawns, exit_code>>
            ELSE /\ \E given \in BOOLEAN, threads \in 0..MaxThreads, cpu_count \in 1..MaxThreads :
                      /\ requested_workers' = (IF given THEN threads ELSE cpu_count)
                      /\ max_workers' = (IF requested_workers' < n THEN requested_workers' ELSE n)
                 /\ spawns' = [i \in 1..n |-> 0]
                 /\ exit_code' = [i \in 1..n |-> "none"]
                 /\ mainPc' = "setup"
    /\ UNCHANGED <<use_gpu, probe, probe_calls, encoders, hw_encoder, cursor,
                   screen_cleared, interrupted>>
    /\ UNCHANGED <<work_queue, futures, wpc, wjob, task_line, return_code, processed_files,
                   failed_files, live_summary, print_lock>>

DiscoverFiles == DiscoverFilesUpTo(MaxFiles)

DiscoverFewFiles == DiscoverFilesUpTo(LiveFiles)

\* process_directory, lines 306-321: clear the screen, hide the cursor,
\* print the header and the reserved lines, all inside `with print_lock`.
SetupTerminal ==
    /\ UNCHANGED auxVars
    /\ mainPc = "setup"
    /\ print_lock = 0
    /\ cursor' = "hidden"
    /\ screen_cleared' = TRUE
    /\ mainPc' = "pool"
    /\ UNCHANGED <<use_gpu, probe, probe_calls, encoders, hw_encoder, video_files,
                   requested_workers, max_workers, interrupted>>
    /\ UNCHANGED poolVars

\* Line 354: ThreadPoolExecutor(max_workers=...) raises ValueError unless
\* max_workers > 0; the exception leaves process_directory.
CreatePool ==
    /\ UNCHANGED auxVars
    /\ mainPc = "pool"
    /\ IF max_workers <= 0
       THEN /\ mainPc' = "aborted"
            /\ UNCHANGED <<wpc, wjob, task_line, return_code>>
       ELSE /\ mainPc' = "submit"
            /\ wpc' = [w \in Threads(max_workers) |-> "idle"]
            /\ wjob' = [w \in Threads(max_workers) |-> 0]
            /\ task_line' = [w \in Threads(max_workers) |-> 0]
            /\ return_code' = [w \in Threads(max_workers) |-> 0]
    /\ UNCHANGED <<use_gpu, probe, probe_calls, encoders, hw_encoder, video_files,
                   requested_workers, max_workers, cursor, screen_cleared, interrupted>>
    /\ UNCHANGED <<work_queue, futures, processed_files, failed_files, live_summary, spawns,
                   exit_code, print_lock>>

\* Line 355: one executor.submit per file, in enumerate order.
Submit ==
    /\ UNCHANGED auxVars
    /\ mainPc = "submit"
    /\ LET i == Len(futures) + 1 IN
         /\ work_queue' = submit(work_queue, i)
         /\ futures' = Append(futures, "pending")
         /\ mainPc' = (IF i = total_files THEN "wait" ELSE "submit")
    /\ UNCHANGED <<use_gpu, probe, probe_calls, encoders, hw_encoder, video_files,
                   requested_workers, max_workers, cursor, screen_cleared, interrupted>>
    /\ UNCHANGED <<wpc, wjob, task_line, return_code, processed_files, failed_files,
                   live_summary, spawns,
                   exit_code, print_lock>>

\* Lines 356-357: wait(futures) and the end of the with block.
WaitForPool ==
    /\ UNCHANGED auxVars
    /\ mainPc = "wait"
    /\ PoolBarrier
    /\ mainPc' = "restore"
    /\ UNCHANGED <<use_gpu, probe, probe_calls, encoders, hw_encoder, video_files,
                   requested_workers, max_workers, cursor, screen_cleared, interrupted>>
    /\ UNCHANGED poolVars

\* Lines 358-361: show the cursor again, inside `with print_lock`.
RestoreTerminal ==
    /\ UNCHANGED auxVars
    /\ mainPc = "restore"
    /\ print_lock = 0
    /\ cursor' = "visible"
    /\ mainPc' = "summary"
    /\ UNCHANGED <<use_gpu, probe, probe_calls, encoders, hw_encoder, video_files,
                   requested_workers, max_workers, screen_cleared, interrupted>>
    /\ UNCHANGED poolVars

\* Lines 363-371: the final summary reads processed_files and failed_files.
PrintSummary ==
    /\ UNCHANGED auxVars
    /\ mainPc = "summary"
    /\ mainPc' = "done"
    /\ UNCHANGED <<use_gpu, probe, probe_calls, encoders, hw_encoder, video_files,
                   requested_workers, max_workers, cursor, screen_cleared, interrupted>>
    /\ UNCHANGED poolVars

\* KeyboardInterrupt raised in the main thread once the terminal is set up
\* (before that there is nothing to restore).  process_directory has no
\* try/finally and installs no signal handler: outside the with block the
\* exception leaves the function at once; inside it (lines 354-356) the
\* executor's __exit__ first joins the worker threads.
Interrupt ==
    /\ UNCHANGED auxVars
    /\ mainPc \in {"pool", "submit", "wait", "restore", "summary"}
    /\ interrupted' = TRUE
    /\ mainPc' = (IF mainPc \in {"submit", "wait"} THEN "unwinding" ELSE "aborted")
    /\ UNCHANGED <<use_gpu, probe, probe_calls, encoders, hw_encoder, video_files,
                   requested_workers, max_workers, cursor, screen_cleared>>
    /\ UNCHANGED poolVars

\* ThreadPoolExecutor.__exit__ on the exception path: shutdown(wait=True),
\* then the exception leaves process_directory.
Unwind ==
    /\ UNCHANGED auxVars
    /\ mainPc = "unwinding"
    /\ ThreadsJoined
    /\ mainPc' = "aborted"
    /\ UNCHANGED <<use_gpu, probe, probe_calls, encoders, hw_encoder, video_files,
                   requested_workers, max_workers, cursor, screen_cleared, interrupted>>
    /\ UNCHANGED poolVars

\* -------------------------------------------------------- worker threads
\* Positions at which process_video / apply_lut_to_video enter a
\* `with print_lock:` block, and the position inside that block.
LockedSection(pc) ==
    CASE pc = "starting" -> "starting_cs"          \* line 330
      [] pc = "encoder_msg" -> "encoder_msg_cs"    \* line 123
      [] pc = "reading" -> "progress_cs"           \* lines 205, 219
      [] pc = "final_status" -> "final_status_cs"  \* line 232
      [] pc = "error_msg" -> "error_msg_cs"        \* line 243
      [] pc = "record" -> "record_cs"              \* line 338

LockEntries == {"starting", "encoder_msg", "reading", "final_status", "error_msg", "record"}

\* The worker threads are interchangeable: the free thread that takes the
\* next item is taken to be the lowest-numbered one.
FreeWorker(w) ==
    /\ wpc[w] = "idle"
    /\ \A v \in Workers : wpc[v] = "idle" => w <= v

\* A free worker thread takes the next work item and enters process_video
\* (lines 323-328).
Take(w) ==
    /\ FreeWorker(w)
    /\ work_queue # <<>>
    /\ LET k == NextItem(work_queue)
           i == work_queue[k] IN
         /\ work_queue' = RemoveAt(work_queue, k)
         /\ futures' = [futures EXCEPT ![i] = "running"]
         /\ wjob' = [wjob EXCEPT ![w] = i]
         /\ task_line' = [task_line EXCEPT ![w] = TaskLine(i)]
         /\ wpc' = [wpc EXCEPT ![w] = "starting"]
    /\ UNCHANGED <<return_code, processed_files, failed_files, live_summary, spawns,
                   exit_code, print_lock>>
    /\ UNCHANGED mainVars

\* A `with` that enters whether or not the lock is held.
lock_unchecked(lock) == TRUE

\* threading.Lock (line 307): a `with` on it enters only while no thread
\* holds it.
lock_free(lock) == lock = 0

\* Entering a `with print_lock:` block.  From "reading" this is a refresh of
\* the progress line (lines 179-225), due at most every 0.5 s.
Acquire(w) ==
    /\ wpc[w] \in LockEntries
    /\ lock_free(print_lock)
    /\ print_lock' = w
    /\ wpc' = [wpc EXCEPT ![w] = LockedSection(wpc[w])]
    /\ UNCHANGED <<work_queue, futures, wjob, task_line, return_code, processed_files,
                   failed_files, live_summary, spawns, exit_code>>
    /\ UNCHANGED mainVars

\* Leaving a block that only writes to the terminal: "Starting" (lines
\* 331-332), the encoder message (lines 124-127), a progress refresh (lines
\* 207-208, 221-222), the final status (lines 234-235, then the test of
\* line 240), the error text (lines 244-245).
AfterSection(pc, rc) ==
    CASE pc = "starting_cs" -> "encoder_msg"
      [] pc = "encoder_msg_cs" -> "popen"
      [] pc = "progress_cs" -> "reading"
      [] pc = "final_status_cs" -> (IF rc # 0 THEN "error_msg" ELSE "record")
      [] pc = "error_msg_cs" -> "record"

WriteSections == {"starting_cs", "encoder_msg_cs", "progress_cs", "final_status_cs", "error_msg_cs"}

WriteAndRelease(w) ==
    /\ wpc[w] \in WriteSections
    /\ print_lock = w
    /\ print_lock' = 0
    /\ wpc' = [wpc EXCEPT ![w] = AfterSection(wpc[w], return_code[w])]
    /\ UNCHANGED <<work_queue, futures, wjob, task_line, return_code, processed_files,
                   failed_files, live_summary, spawns, exit_code>>
    /\ UNCHANGED mainVars

\* subprocess.Popen (lines 135-140) starts the encoder.
PopenStarts(w) ==
    /\ wpc[w] = "popen"
    /\ spawns' = [spawns EXCEPT ![wjob[w]] = @ + 1]
    /\ wpc' = [wpc EXCEPT ![w] = "reading"]
    /\ UNCHANGED <<work_queue, futures, wjob, task_line, return_code, processed_files,
                   failed_files, live_summary, exit_code, print_lock>>
    /\ UNCHANGED mainVars

\* subprocess.Popen raises (OSError: no ffmpeg, no file descriptors ...).
\* Nothing in apply_lut_to_video or process_video catches it: the work item
\* ends with the exception stored in its Future and the thread is free again.
PopenRaises(w) ==
    /\ wpc[w] = "popen"
    /\ futures' = [futures EXCEPT ![wjob[w]] = "raised"]
    /\ wjob' = [wjob EXCEPT ![w] = 0]
    /\ task_line' = [task_line EXCEPT ![w] = 0]
    /\ wpc' = [wpc EXCEPT ![w] = "idle"]
    /\ UNCHANGED <<work_queue, return_code, processed_files, failed_files, live_summary, spawns,
                   exit_code, print_lock>>
    /\ UNCHANGED mainVars

\* The read loop ends (lines 152-154) and return_code is taken (line 228).
ProcessExits(w) ==
    /\ wpc[w] = "reading"
    /\ \E rc \in {0, 1} :
         /\ return_code' = [return_code EXCEPT ![w] = rc]
         /\ exit_code' = [exit_code EXCEPT ![wjob[w]] = IF rc = 0 THEN "ok" ELSE "error"]
    /\ wpc' = [wpc EXCEPT ![w] = "final_status"]
    /\ UNCHANGED <<work_queue, futures, wjob, task_line, processed_files, failed_files,
                   live_summary, spawns, print_lock>>
    /\ UNCHANGED mainVars

\* The summary line with the finishing job counted as completed.
summary_counts_with_self(processed, failed) == <<Len(processed) + 1, Len(failed)>>

\* Line 345: the counts written on the summary line.
summary_counts(processed, failed) == <<Len(processed), Len(failed)>>

\* process_video, lines 338-351: status and summary lines, then the append
\* to processed_files or failed_files; the lock is released, process_video
\* returns (its locals are gone) and the Future is finished.
Record(w) ==
    /\ wpc[w] = "record_cs"
    /\ print_lock = w
    /\ LET video_file == video_files[wjob[w]]
           output_file == ReturnValue(return_code[w], video_file) IN
         IF output_file # NoOutput
         THEN /\ processed_files' = Append(processed_files, output_file)
              /\ UNCHANGED failed_files
         ELSE /\ failed_files' = Append(failed_files, video_file)
              /\ UNCHANGED processed_files
    /\ live_summary' = summary_counts(processed_files, failed_files)
    /\ print_lock' = 0
    /\ futures' = [futures EXCEPT ![wjob[w]] = "finished"]
    /\ wjob' = [wjob EXCEPT ![w] = 0]
    /\ task_line' = [task_line EXCEPT ![w] = 0]
    /\ return_code' = [return_code EXCEPT ![w] = 0]
    /\ wpc' = [wpc EXCEPT ![w] = "idle"]
    /\ UNCHANGED <<work_queue, spawns, exit_code>>
    /\ UNCHANGED mainVars

PoolNext ==
    \/ DetectEncoders
    \/ SetupTerminal
    \/ CreatePool
    \/ Submit
    \/ WaitForPool
    \/ RestoreTerminal
    \/ PrintSummary
    \/ Interrupt
    \/ Unwind
    \/ \E w \in Workers : Take(w)
    \/ \E w \in Workers : Acquire(w)
    \/ \E w \in Workers : WriteAndRelease(w)
    \/ \E w \in Workers : PopenStarts(w)
    \/ \E w \in Workers : PopenRaises(w)
    \/ \E w \in Workers : ProcessExits(w)
    \/ \E w \in Workers : Record(w)

Next == DiscoverFiles \/ PoolNext

Spec == Init /\ [][Next]_vars

\* Every runnable thread is scheduled: a free worker thread takes a queued
\* item, and a thread entering, inside or leaving a print_lock block goes
\* on.  Nothing bounds how long a subprocess runs (there is no per-job
\* timeout), so its exit is not a fair step.
ThreadFairness ==
    /\ WF_vars(\E w \in Workers : Take(w))
    /\ WF_vars(\E w \in Workers : Acquire(w) \/ WriteAndRelease(w) \/ Record(w))

\* The runs checked for liveness: hardware use disabled, few files.
InitLive == InitWith({ProbeFailure}) /\ use_gpu = FALSE

NextLive == DiscoverFewFiles \/ PoolNext

\* ------------------------------------------- discovery over named files
\* Largest number of names in the input directory.
MaxListing == 2

\* Names found in input directories: video extensions in lower, upper and
\* mixed case, an earlier output, and a file that is no video.
FileNames == {<<"a", ".", "m", "p", "4">>,
              <<"a", ".", "M", "p", "4">>,
              <<"b", ".", "M", "O", "V">>,
              <<"b", ".", "m", "k", "v">>,
              <<"a", "_", "L", "U", "T", ".", "m", "p", "4">>,
              <<"a", ".", "t", "x", "t">>}

\* A directory holds no name twice; on Windows names that differ only in
\* case are one name.
IsListing(names) ==
    \A i, j \in DOMAIN names : i < j => normcase(names[i]) # normcase(names[j])

InitDiscover ==
    /\ BatchInit("discover", {ProbeFailure})
    /\ use_gpu = FALSE
    /\ args = DefaultArgs
    /\ platform \in Platforms
    /\ listing \in UNION {[1..n -> FileNames] : n \in 0..MaxListing}
    /\ IsListing(listing)
    /\ rerun_files = <<>>
    /\ NoProcess /\ NoParser /\ NoCommand

\* Lines 283-290 over the names of the directory.
GlobFiles ==
    /\ mainPc = "discover"
    /\ video_files' = discover(listing, 1)
    /\ mainPc' = (IF video_files' = <<>> THEN "returned" ELSE "jobs")
    /\ UNCHANGED <<use_gpu, probe, probe_calls, encoders, hw_encoder, requested_workers,
                   max_workers, cursor, screen_cleared, interrupted, args, platform, listing,
                   rerun_files, pipeVars, parserVars, cmd>>
    /\ UNCHANGED poolVars

\* The directory after files were created under the given names.
RECURSIVE Created(_, _)
Created(names, new) ==
    IF new = <<>> THEN names
    ELSE Created(IF \E k \in DOMAIN names : normcase(names[k]) = normcase(Head(new))
                 THEN names ELSE Append(names, Head(new)),
                 Tail(new))

\* The batch runs: the encoder of every job that succeeds leaves its
\* output file (line 46) in the input directory (line 280).
WriteOutputs ==
    /\ mainPc = "jobs"
    /\ \E ok \in SUBSET DOMAIN video_files :
         listing' = Created(listing,
                            SelectSeq([i \in DOMAIN video_files |->
                                         IF i \in ok THEN output_path(video_files[i]) ELSE <<>>],
                                      LAMBDA name : name # <<>>))
    /\ mainPc' = "done"
    /\ UNCHANGED <<use_gpu, probe, probe_calls, encoders, hw_encoder, video_files,
                   requested_workers, max_workers, cursor, screen_cleared, interrupted,
                   args, platform, rerun_files, pipeVars, parserVars, cmd>>
    /\ UNCHANGED poolVars

\* The program is run again on the same directory: lines 283-286.
Rediscover ==
    /\ mainPc = "done"
    /\ rerun_files' = discover(listing, 1)
    /\ mainPc' = "rerun"
    /\ UNCHANGED <<use_gpu, probe, probe_calls, encoders, hw_encoder, video_files,
                   requested_workers, max_workers, cursor, screen_cleared, interrupted,
                   args, platform, listing, pipeVars, parserVars, cmd>>
    /\ UNCHANGED poolVars

NextDiscover == GlobFiles \/ WriteOutputs \/ Rediscover

SpecDiscover == InitDiscover /\ [][NextDiscover]_vars

\* ------------------------------------------- one subprocess and its pipes
\* Capacity of an operating-system pipe, in writes of the subprocess.
PipeCap == 2
\* Largest number of writes the subprocess makes before it exits.
MaxWrites == 5

\* Lines 135-140: the subprocess is started with stdout and stderr both
\* piped; `left` is what it will still write, in order, before it exits.
InitPipe ==
    /\ BatchInit("wait", {ProbeFailure})
    /\ use_gpu = FALSE
    /\ args = DefaultArgs
    /\ NoListing /\ NoParser /\ NoCommand
    /\ \E n \in 0..MaxWrites : \E left \in [1..n -> {"stdout", "stderr"}] :
         process = [left |-> left, stdout |-> 0, stderr |-> 0, alive |-> TRUE]
    /\ reader = "readline"

pipeFrame ==
    <<mainPc, use_gpu, probe, probe_calls, encoders, hw_encoder, video_files,
      requested_workers, max_workers, cursor, screen_cleared, interrupted, args,
      listingVars, parserVars, cmd, poolVars>>

\* The subprocess writes to one of its streams; the write blocks while that
\* pipe is full.
ProcessWrites ==
    /\ process.alive
    /\ process.left # <<>>
    /\ LET stream == Head(process.left) IN
         /\ process[stream] < PipeCap
         /\ process' = [process EXCEPT ![stream] = @ + 1, !.left = Tail(@)]
    /\ UNCHANGED reader
    /\ UNCHANGED pipeFrame

\* The subprocess has written everything and exits; its ends of the pipes
\* are closed.
ProcessEnds ==
    /\ process.alive
    /\ process.left = <<>>
    /\ process' = [process EXCEPT !.alive = FALSE]
    /\ UNCHANGED reader
    /\ UNCHANGED pipeFrame

\* Line 152: readline returns a line the subprocess wrote to stdout; the
\* loop goes round (lines 156-225).  With nothing buffered and the pipe
\* open, readline blocks.
ReadLine ==
    /\ reader = "readline"
    /\ process.stdout > 0
    /\ process' = [process EXCEPT !.stdout = @ - 1]
    /\ UNCHANGED reader
    /\ UNCHANGED pipeFrame

\* Lines 152-154 and 228-240: readline returns "" at end of file, poll()
\* gives the return code and the loop is left.
ReadEof ==
    /\ reader = "readline"
    /\ process.stdout = 0
    /\ ~process.alive
    /\ reader' = "final"
    /\ UNCHANGED process
    /\ UNCHANGED pipeFrame

\* Lines 240-251: process.stderr.read() on a non-zero return code (the only
\* read of stderr), and the return.
Finish ==
    /\ reader = "final"
    /\ \E rc \in {0, 1} :
         process' = [process EXCEPT !.stderr = IF rc # 0 THEN 0 ELSE @]
    /\ reader' = "returned"
    /\ UNCHANGED pipeFrame

NextPipe == ProcessWrites \/ ProcessEnds \/ ReadLine \/ ReadEof \/ Finish

\* The operating system runs a subprocess that can run; a thread that can
\* go on does.
PipeFairness ==
    /\ WF_vars(ProcessWrites)
    /\ WF_vars(ProcessEnds)
    /\ WF_vars(ReadLine)
    /\ WF_vars(ReadEof)
    /\ WF_vars(Finish)

SpecPipe == InitPipe /\ [][NextPipe]_vars /\ PipeFairness

\* ------------------------------------------------- the progress parser
\* Largest duration, in microseconds.
MaxDuration == 4

Payloads ==
    [kind : {"int"}, val : {-1, 1, MaxDuration + 2}]
      \cup [kind : {"float"}, val : {25}]
      \cup [kind : {"na", "junk"}, val : {0}]

\* An out_time_ms payload of several hundred digits.
HugePayload == [kind |-> "huge", val |-> 0]

Lines ==
    [key : {"out_time_ms", "frame", "fps", "other"}, payload : Payloads]
      \cup {[key |-> "out_time_ms", payload |-> HugePayload]}

\* int(s) raises ValueError unless s is a decimal integer.
int_ok(payload) == payload.kind \in {"int", "huge"}

\* float(s) raises ValueError unless s is a decimal number; the value in
\* tenths.
float_ok(payload) == payload.kind \in {"int", "float"}

float_of(payload) == IF payload.kind = "int" THEN payload.val * 10 ELSE payload.val

\* Lines 157-163.  int(time_str) / 1000000 raises OverflowError when the
\* integer is too large for a float; the handler of line 162 does not
\* catch it.
parse_out_time(l, old) ==
    IF l.key = "out_time_ms" /\ l.payload.kind # "na" /\ int_ok(l.payload)
    THEN (IF l.payload.kind = "huge" THEN old ELSE l.payload.val)
    ELSE old

parse_raises(l) == l.key = "out_time_ms" /\ l.payload.kind = "huge"

\* Lines 164-170.
parse_frame(l, old) ==
    IF l.key = "frame" /\ l.payload.kind # "na" /\ int_ok(l.payload)
    THEN l.payload.val
    ELSE old

\* Lines 171-177: the handler of line 177 sets current_fps to 0.
parse_fps(l, old) ==
    IF l.key # "fps" \/ l.payload.kind = "na" THEN old
    ELSE IF float_ok(l.payload) THEN float_of(l.payload)
    ELSE 0

\* Line 187: min(100, int(current_time / duration * 100)), for
\* current_time > 0; both in microseconds, the quotient taken exactly.
percent(time, total) ==
    IF (time * 100) \div total < 100 THEN (time * 100) \div total ELSE 100

\* Lines 143-148: the locals before the loop; the duration is what ffprobe
\* gave (lines 49-57), 0 when it gave nothing.
InitParse ==
    /\ BatchInit("wait", {ProbeFailure})
    /\ use_gpu = FALSE
    /\ args = DefaultArgs
    /\ NoListing /\ NoProcess /\ NoCommand
    /\ duration \in 0..MaxDuration
    /\ current_time = 0
    /\ frame_count = 0
    /\ current_fps = -1
    /\ progress = -1
    /\ parser = "reading"
    /\ line = NoLine

\* One round of the loop, lines 152-225: a line is read and parsed; when
\* the refresh is due (line 181) and the duration is known, the percentage
\* is computed and displayed.
ParseLine ==
    /\ parser = "reading"
    /\ \E l \in Lines, due \in BOOLEAN :
         /\ line' = l
         /\ IF parse_raises(l)
            THEN /\ parser' = "raised"
                 /\ UNCHANGED <<current_time, frame_count, current_fps, progress>>
            ELSE /\ current_time' = parse_out_time(l, current_time)
                 /\ frame_count' = parse_frame(l, frame_count)
                 /\ current_fps' = parse_fps(l, current_fps)
                 /\ progress' = (IF due /\ duration > 0 /\ current_time' > 0
                                 THEN percent(current_time', duration)
                                 ELSE progress)
                 /\ UNCHANGED parser
    /\ UNCHANGED duration
    /\ UNCHANGED <<mainPc, use_gpu, probe, probe_calls, encoders, hw_encoder, video_files,
                   requested_workers, max_workers, cursor, screen_cleared, interrupted,
                   args, listingVars, pipeVars, cmd, poolVars>>

SpecParse == InitParse /\ [][ParseLine]_vars

\* ---------------------------------------------------- the encoder profile
\* The preset of the QuickSync profile with "slow" in the slowest bucket.
native_preset_merged(hw, quality) ==
    CASE hw = "nvidia" ->
           (IF quality \in {"veryslow", "slower", "slow"} THEN "p4"
            ELSE IF quality = "medium" THEN "p2" ELSE "p1")
      [] hw = "amd" ->
           (IF quality \in {"veryslow", "slower", "slow", "medium"} THEN "quality"
            ELSE "speed")
      [] hw = "qsv" ->
           (IF quality \in {"veryslow", "slower", "slow"} THEN "veryslow"
            ELSE IF quality = "medium" THEN "medium" ELSE "faster")
      [] OTHER -> quality

\* Lines 70-71, 81, 90-92, 107: the value given to the encoder for the
\* requested quality preset.
native_preset(hw, quality) ==
    CASE hw = "nvidia" ->
           (IF quality \in {"veryslow", "slower", "slow"} THEN "p4"
            ELSE IF quality = "medium" THEN "p2" ELSE "p1")
      [] hw = "amd" ->
           (IF quality \in {"veryslow", "slower", "slow", "medium"} THEN "quality"
            ELSE "speed")
      [] hw = "qsv" ->
           (IF quality \in {"veryslow", "slower"} THEN "veryslow"
            ELSE IF quality = "slow" THEN "slower"
            ELSE IF quality = "medium" THEN "medium" ELSE "faster")
      [] OTHER -> quality

\* Line 99 without the two limits.
videotoolbox_q_unclamped(crf) == (CrfMax - crf) * 2

\* Line 99: max(1, min(100, (51 - crf) * 2)).
videotoolbox_q(crf) ==
    LET q == (CrfMax - crf) * 2
        capped == IF q < 100 THEN q ELSE 100 IN
      IF capped > 1 THEN capped ELSE 1

\* Lines 66-108: the options cmd is extended with for the chosen encoder.
encoder_settings(hw, quality, crf) ==
    CASE hw = "nvidia" ->
           <<"-c:v", "h264_nvenc", "-preset", native_preset(hw, quality),
             "-profile:v", "high", "-rc", "vbr", "-cq", ToString(crf), "-b:v", "0">>
      [] hw = "amd" ->
           <<"-c:v", "h264_amf", "-quality", native_preset(hw, quality),
             "-rc", "cqp", "-qp_i", ToString(crf), "-qp_p", ToString(crf)>>
      [] hw = "qsv" ->
           <<"-c:v", "h264_qsv", "-preset", native_preset(hw, quality),
             "-global_quality", ToString(crf)>>
      [] hw = "videotoolbox" ->
           <<"-c:v", "h264_videotoolbox", "-q:v", ToString(videotoolbox_q(crf)),
             "-allow_sw", "1">>
      [] OTHER ->
           <<"-c:v", "libx264", "-crf", ToString(crf), "-preset", native_preset(hw, quality)>>

\* Lines 111-119, without the output path.
common_settings ==
    <<"-pix_fmt", "yuv420p", "-c:a", "copy", "-map", "0:v:0", "-map", "0:a?",
      "-ignore_unknown", "-progress", "pipe:1">>

\* The value that follows an option in cmd.
Option(c, flag) == c[(CHOOSE k \in DOMAIN c : c[k] = flag) + 1]

\* apply_lut_to_video is entered with any backend, preset and valid CRF.
InitProfile ==
    /\ BatchInitWith("build", {ProbeFailure}, Backends \cup {"None"})
    /\ use_gpu = (hw_encoder # "None")
    /\ args \in [input_isdir : {TRUE}, lut_file : {DefaultArgs.lut_file}, lut_isfile : {TRUE},
                 crf : CrfMin..CrfMax, quality : Qualities]
    /\ NoListing /\ NoProcess /\ NoParser /\ NoCommand

\* Lines 60-119: cmd is built.
BuildCommand ==
    /\ mainPc = "build"
    /\ cmd' = <<"ffmpeg", "-i", "video_path", "-vf", "lut3d=lut_path">>
                \o encoder_settings(hw_encoder, args.quality, args.crf)
                \o common_settings \o <<"output_path">>
    /\ mainPc' = "built"
    /\ UNCHANGED <<use_gpu, probe, probe_calls, encoders, hw_encoder, video_files,
                   requested_workers, max_workers, cursor, screen_cleared, interrupted,
                   args, listingVars, pipeVars, parserVars, poolVars>>

SpecProfile == InitProfile /\ [][BuildCommand]_vars

\* The program from main(): any command line, then the batch.
InitMain ==
    /\ BatchInit("main", {ProbeFailure})
    /\ args \in AllArgs
    /\ NoListing /\ NoProcess /\ NoParser /\ NoCommand

NextMain == ValidateArgs \/ NextLive

SpecMain == InitMain /\ [][NextMain]_vars

SpecLive == InitLive /\ [][NextLive]_vars /\ ThreadFairness

\* --------------------------------------------------- derived job state
Range(seq) == {seq[k] : k \in 1..Len(seq)}

Count(seq, x) == Cardinality({k \in 1..Len(seq) : seq[k] = x})

Submitted(i) == i <= Len(futures)

\* The state of file i's job, read off the Future and the two result lists.
\* "Aborted": process_video ended with an exception, nothing was recorded.
JobState(i) ==
    IF ~Submitted(i) THEN "Pending"
    ELSE CASE futures[i] = "pending" -> "Pending"
           [] futures[i] = "running" -> "Running"
           [] futures[i] = "raised" -> "Aborted"
           [] futures[i] = "finished" ->
                IF OutputPath(video_files[i]) \in Range(processed_files) THEN "Completed"
                ELSE IF video_files[i] \in Range(failed_files) THEN "Failed"
                ELSE "Lost"

RunningJobs == {i \in FileIndexes : JobState(i) = "Running"}

SummaryPrinted == mainPc = "done"

PoolLeft == mainPc \in {"restore", "summary", "done"}

ErrorExits == {i \in FileIndexes : exit_code[i] = "error"}

\* ---------------------------------------------------------------- claims

\* C1: failure isolation. When the pool has been left and every subprocess
\* was started and has exited, exactly one of them (file k) with a non-zero
\* status, then every other job is Completed, job k is Failed,
\* failed_files is exactly <<k's file>> and processed_files holds the N-1
\* other output paths, once each.
InvC1 ==
    (/\ PoolLeft
     /\ \A i \in FileIndexes : exit_code[i] # "none"
     /\ Cardinality(ErrorExits) = 1)
    => /\ \A i \in FileIndexes \ ErrorExits : JobState(i) = "Completed"
       /\ \A i \in ErrorExits : JobState(i) = "Failed" /\ failed_files = <<video_files[i]>>
       /\ Len(processed_files) = total_files - 1
       /\ Range(processed_files) = {OutputPath(video_files[i]) : i \in FileIndexes \ ErrorExits}

WitC1 ==
    /\ SummaryPrinted
    /\ total_files = 3
    /\ max_workers = 2
    /\ exit_code = <<"ok", "error", "ok">>
    /\ failed_files = <<2>>
    /\ processed_files = <<OutputPath(3), OutputPath(1)>>

\* C2: when the final summary is printed, every discovered file is in
\* exactly one of processed_files and failed_files, once, so the two
\* lengths add up to total_files.
InvC2 ==
    SummaryPrinted
    => /\ \A i \in FileIndexes :
            Count(processed_files, OutputPath(video_files[i]))
              + Count(failed_files, video_files[i]) = 1
       /\ Len(processed_files) + Len(failed_files) = total_files

\* C3: the number of jobs a worker is executing (taken from the queue and
\* not yet returned, which includes every job whose subprocess runs) never
\* exceeds max_workers.
InvC3 == Cardinality(RunningJobs) <= max_workers

WitC3 ==
    /\ total_files = 3
    /\ max_workers = 2
    /\ Cardinality(RunningJobs) = 2
    /\ \A i \in RunningJobs : spawns[i] = 1
    /\ work_queue = <<3>>

Min(a, b) == IF a < b THEN a ELSE b

Sized == mainPc \in {"setup", "pool", "submit", "wait", "unwinding", "restore", "summary", "done"}

\* C4: once the worker count is computed for a batch with at least one
\* file, 1 <= max_workers <= min(configured-or-CPU-count, total_files).
InvC4 ==
    (Sized /\ total_files >= 1)
    => /\ 1 <= max_workers
       /\ max_workers <= Min(requested_workers, total_files)

BatchEnded == mainPc \in {"done", "aborted"}

\* C5: once the terminal was set up, the cursor is shown again on every
\* path by which the batch ends.
InvC5 == (screen_cleared /\ BatchEnded) => cursor = "visible"

\* C6: the terminal is restored and the summary printed only after every
\* job is terminal: from the restoration on, no job is Pending or Running
\* and no worker thread is executing.
InvC6 ==
    mainPc \in {"summary", "done"}
    => /\ \A i \in FileIndexes : JobState(i) \notin {"Pending", "Running"}
       /\ \A w \in Workers : wpc[w] = "idle"
       /\ work_queue = <<>>

WitC6 ==
    /\ SummaryPrinted
    /\ total_files = 3
    /\ max_workers = 2
    /\ JobState(1) = "Completed"
    /\ JobState(2) = "Failed"
    /\ JobState(3) = "Aborted"
    /\ cursor = "visible"

Terminal == {"Completed", "Failed", "Aborted"}

\* C7: a job only ever moves Pending -> Running -> terminal; it is never
\* taken a second time, a terminal state never changes, and Popen is
\* called for it at most once, while it is Running.
StepC7(i) ==
    /\ \/ JobState(i)' = JobState(i)
       \/ JobState(i) = "Pending" /\ JobState(i)' = "Running"
       \/ JobState(i) = "Running" /\ JobState(i)' \in Terminal
    /\ spawns'[i] <= 1
    /\ spawns'[i] # spawns[i] => JobState(i) = "Running"

ActC7 == [][\A i \in FileIndexes : StepC7(i)]_vars

WitC7 ==
    /\ SummaryPrinted
    /\ total_files = 3
    /\ max_workers = 1
    /\ JobState(1) = "Failed"
    /\ JobState(2) = "Completed"
    /\ JobState(3) = "Completed"
    /\ \A i \in FileIndexes : spawns[i] = 1

\* The fixed order of section 4.1, best first.
Priority == <<"nvidia", "amd", "videotoolbox", "qsv">>

Available == {b \in Backends : encoders[b]}

FirstAvailable(avail) ==
    IF avail = {} THEN "None"
    ELSE Priority[CHOOSE k \in 1..Len(Priority) :
                    /\ Priority[k] \in avail
                    /\ \A m \in 1..(k - 1) : Priority[m] \notin avail]

Detected == mainPc # "detect"

\* C8: after detection with hardware enabled, the backends reported
\* available are those whose identifier the listing holds, and the chosen
\* backend is the first available one in the order nvidia, amd,
\* videotoolbox, qsv, or software when none is available.
InvC8 ==
    (Detected /\ use_gpu)
    => /\ \A b \in Backends : encoders[b] <=> (probe.ok /\ EncoderToken(b) \in Range(probe.out))
       /\ hw_encoder = FirstAvailable(Available)

WitC8 ==
    /\ Detected
    /\ use_gpu
    /\ probe.out = <<"h264_qsv", "libx264", "h264_videotoolbox">>
    /\ Available = {"qsv", "videotoolbox"}
    /\ hw_encoder = "videotoolbox"

\* Detection alone, over every outcome of the probe.
InitDetect == InitWith(AllProbes)

SpecDetect == InitDetect /\ [][DetectEncoders]_vars

\* C9: when the probe fails, or hardware use is disabled (the probe is then
\* not invoked), no backend is reported, software is chosen, detection is
\* not what ends the batch, and a batch that runs to its summary has
\* dispatched every discovered file.
InvC9 ==
    (Detected /\ (~use_gpu \/ ~probe.ok))
    => /\ Available = {}
       /\ hw_encoder = "None"
       /\ probe_calls = (IF use_gpu THEN 1 ELSE 0)
       /\ mainPc = "aborted" => (interrupted \/ max_workers <= 0)
       /\ PoolLeft => \A i \in FileIndexes : Submitted(i) /\ JobState(i) \in Terminal

WitC9 ==
    /\ SummaryPrinted
    /\ use_gpu
    /\ ~probe.ok
    /\ probe_calls = 1
    /\ total_files = 3
    /\ \A i \in FileIndexes : spawns[i] = 1

Started(i) == JobState(i) # "Pending"

FreeThread == \E w \in Workers : wpc[w] = "idle"

InQueue(i) == i \in Range(work_queue)

\* A job has started once a worker thread has taken it from the queue.
\* (a) file i+1 is not started before file i; (b) a file at position
\* j > max_workers is started only when at least j - max_workers earlier
\* files have ended.
SafeC10 ==
    /\ \A i \in FileIndexes : (i > 1 /\ Started(i)) => Started(i - 1)
    /\ \A j \in FileIndexes :
         (j > max_workers /\ Started(j))
         => Cardinality({i \in 1..(j - 1) : JobState(i) \in Terminal}) >= j - max_workers

\* C10 as stated: (a), (b), and every queued job is eventually started once
\* a worker thread is free, whatever the running subprocesses do.
OrigC10 ==
    /\ []SafeC10
    /\ \A i \in 1..MaxFiles : (InQueue(i) /\ FreeThread) ~> Started(i)

\* C10 as amended: (a), (b), and the queued job next in submission order is
\* eventually started once a worker thread is free, whatever the running
\* subprocesses do.
ThmC10 ==
    /\ []SafeC10
    /\ \A i \in 1..MaxFiles :
         (work_queue # <<>> /\ Head(work_queue) = i /\ FreeThread) ~> Started(i)

WitC10 ==
    /\ total_files = 2
    /\ max_workers = 1
    /\ JobState(1) \in Terminal
    /\ JobState(2) = "Running"
    /\ spawns[2] = 1

\* ------------------------------------------------------------------ C11
\* The casings of ".cube".
CubeSuffixes ==
    {<<".", c, u, b, e>> : c \in {"c", "C"}, u \in {"u", "U"}, b \in {"b", "B"},
                           e \in {"e", "E"}}

\* A configuration error: the input directory is missing, the LUT file is
\* missing or its name does not end in ".cube" in some casing, or the CRF
\* is outside 0..51.
ConfigError ==
    \/ ~args.input_isdir
    \/ ~args.lut_isfile
    \/ \A suffix \in CubeSuffixes : ~endswith(args.lut_file, suffix)
    \/ args.crf \notin 0..51

\* No subprocess, terminal setup or job has happened.
NothingStarted ==
    /\ probe_calls = 0
    /\ ~screen_cleared
    /\ cursor = "visible"
    /\ futures = <<>>
    /\ work_queue = <<>>
    /\ video_files = <<>>
    /\ spawns = <<>>
    /\ wpc = <<>>

\* C11: on a configuration error the program reports it and does nothing
\* else: the probe is never invoked, no encoder (hence no duration query,
\* which a job makes) is spawned, the terminal is never set up and no job is
\* dispatched; it ends in main() without entering process_directory.
InvC11 ==
    ConfigError => NothingStarted /\ mainPc \in {"main", "rejected"}

\* A command line whose only fault is the LUT name was rejected.
WitC11 ==
    /\ mainPc = "rejected"
    /\ args.input_isdir /\ args.lut_isfile /\ args.crf \in 0..51
    /\ ConfigError

\* ------------------------------------------------------------------ C12
\* C12: a second run over the directory, after the first run wrote its
\* outputs there, discovers the same inputs as the first run.
InvC12 ==
    mainPc = "rerun" => Range(rerun_files) = Range(video_files)

\* ------------------------------------------------------------------ C13
\* A name whose extension is a video extension when case is ignored.
IsVideo(name) ==
    \E k \in DOMAIN video_extensions :
      lower(splitext(name)[2]) = video_extensions[k]

\* C13: once the files are discovered, every name of the directory with a
\* video extension in any casing is exactly one job, and no job's output
\* path is a discovered input.
InvC13 ==
    mainPc = "jobs" =>
      /\ \A k \in DOMAIN listing :
           IsVideo(listing[k]) => Count(video_files, listing[k]) = 1
      /\ \A i, j \in DOMAIN video_files : output_path(video_files[i]) # video_files[j]

\* ------------------------------------------------------------------ C14
\* C14: a started job whose subprocess exits once its output is consumed
\* eventually reaches a terminal state (apply_lut_to_video returns),
\* whatever the subprocess writes to its error stream.
LiveC14 ==
    (reader = "readline") ~> (reader = "returned")

\* ------------------------------------------------------------------ C15
\* The line just parsed carries a well-formed value for the given key.
WellFormed(l, key, kinds) == l.key = key /\ l.payload.kind \in kinds

\* C15: parsing a line never raises, and each of elapsed media time,
\* frames processed and instantaneous fps keeps its last known value unless
\* the line carries a well-formed value for it.
StepC15 ==
    /\ parser' # "raised"
    /\ current_time' # current_time => WellFormed(line', "out_time_ms", {"int", "huge"})
    /\ frame_count' # frame_count => WellFormed(line', "frame", {"int", "huge"})
    /\ current_fps' # current_fps => WellFormed(line', "fps", {"int", "float"})

ActC15 == [][StepC15]_vars

\* ------------------------------------------------------------------ C16
\* C16: every displayed percentage is within [0, 100] and never lower than
\* the one displayed before it, whatever progress lines arrive.
StepC16 ==
    /\ progress' # -1 => progress' \in 0..100
    /\ progress' >= progress

ActC16 == [][StepC16]_vars

\* ------------------------------------------------------------------ C17
\* C17: no two jobs that are Running at the same time have the same
\* display line.
InvC17 ==
    \A w, v \in Workers :
      w # v /\ wjob[w] # 0 /\ wjob[v] # 0 => task_line[w] # task_line[v]

\* ------------------------------------------------------------------ C18
\* The worker threads inside a `with print_lock:` block.
Writers == {w \in Workers : wpc[w] \in WriteSections \cup {"record_cs"}}

\* At most one worker is inside a terminal-write section, and it is the
\* holder of the lock.
ExclusiveC18 ==
    /\ Cardinality(Writers) <= 1
    /\ \A w \in Workers : w \in Writers <=> print_lock = w

\* A worker's section ends only by the holder releasing the lock.
StepC18 ==
    \A w \in Workers :
      w \in Writers /\ wpc'[w] # wpc[w] => print_lock = w /\ print_lock' = 0

\* C18: every terminal write of a worker (Starting, encoder message,
\* progress refresh, final status, error text, completion and summary
\* line) happens inside a section entered by taking the one lock, at most
\* one worker is in such a section at a time, and a lock that is held is
\* eventually released.
ThmC18 ==
    /\ []ExclusiveC18
    /\ [][StepC18]_vars
    /\ (print_lock # 0) ~> (print_lock = 0)

\* One worker writes while another waits for the lock.
WitC18 ==
    \E w, v \in Workers :
      /\ w # v
      /\ print_lock = w
      /\ wpc[w] = "progress_cs"
      /\ wpc[v] \in LockEntries \ {"reading"}

\* ------------------------------------------------------------------ C19
\* The job list is known: discovery has run.
JobListKnown == mainPc \notin {"detect", "discover"}

\* Neither the terminal nor the pool was touched and no encoder was spawned.
NothingDispatched ==
    /\ ~screen_cleared
    /\ cursor = "visible"
    /\ futures = <<>>
    /\ work_queue = <<>>
    /\ wpc = <<>>
    /\ \A i \in DOMAIN spawns : spawns[i] = 0

\* C19 as claimed: the probe is never invoked before the job list is known,
\* and a batch that found no files has invoked no probe and has set up and
\* spawned nothing.
OrigC19 ==
    /\ probe_calls > 0 => JobListKnown
    /\ JobListKnown /\ total_files = 0 =>
         mainPc = "returned" /\ probe_calls = 0 /\ NothingDispatched

\* C19 amended: detection precedes discovery: when hardware use is enabled
\* the probe has been invoked (once) by the time the job list is known, and
\* not otherwise; a batch that found no files ends there with the terminal
\* not set up, no job dispatched and no encoder spawned.
InvC19 ==
    /\ ~Detected => video_files = <<>> /\ probe_calls = 0
    /\ JobListKnown => probe_calls = (IF use_gpu THEN 1 ELSE 0)
    /\ JobListKnown /\ total_files = 0 => mainPc = "returned" /\ NothingDispatched

\* Hardware use enabled, the probe was invoked, and no file was found.
WitC19 ==
    /\ mainPc = "returned"
    /\ use_gpu
    /\ probe_calls = 1
    /\ total_files = 0

\* ------------------------------------------------------------------ C20
\* The option that carries the native preset of a hardware backend.
PresetFlag(hw) == IF hw = "amd" THEN "-quality" ELSE "-preset"

\* The native presets the backend of cmd is given over the 9 quality
\* presets, at the CRF of cmd.
NativePresets ==
    {Option(encoder_settings(hw_encoder, quality, args.crf), PresetFlag(hw_encoder)) :
       quality \in Qualities}

\* The native preset in cmd is one of `tiers` values the backend takes.
Bucketed(hw, tiers) ==
    mainPc = "built" /\ hw_encoder = hw =>
      /\ Cardinality(NativePresets) = tiers
      /\ Option(cmd, PresetFlag(hw)) \in NativePresets

\* C20 as claimed: 3 native presets for nvidia, 2 for amd, 3 for qsv.
OrigC20 ==
    Bucketed("nvidia", 3) /\ Bucketed("amd", 2) /\ Bucketed("qsv", 3)

\* C20 amended: 3 native presets for nvidia, 2 for amd, 4 for qsv, at every
\* CRF in 0..51.
InvC20 ==
    Bucketed("nvidia", 3) /\ Bucketed("amd", 2) /\ Bucketed("qsv", 4)

\* A QuickSync command built for preset "slow", which has a bucket of its own.
WitC20 ==
    /\ mainPc = "built"
    /\ hw_encoder = "qsv"
    /\ args.quality = "slow"
    /\ Option(cmd, "-preset") = "slower"

\* ------------------------------------------------------------------ C21
\* clamp(lo, hi, x).
Clamp(lo, hi, x) == IF x < lo THEN lo ELSE IF x > hi THEN hi ELSE x

\* The number written after -q:v in the command built for CRF c with the
\* backend and preset of the state.
QualityAt(c) ==
    LET text == Option(encoder_settings(hw_encoder, args.quality, c), "-q:v") IN
      CHOOSE n \in -200..200 : ToString(n) = text

\* The option and its value are in the command.
HasOption(c, flag, value) ==
    \E k \in DOMAIN c : k < Len(c) /\ c[k] = flag /\ c[k + 1] = value

\* C21: in a command built for videotoolbox at a CRF in 0..51, the quality
\* parameter is clamp(1, 100, (51 - crf) * 2), an integer in 1..100 that no
\* larger CRF exceeds, and the software-fallback flag is in the command.
InvC21 ==
    mainPc = "built" /\ hw_encoder = "videotoolbox" =>
      /\ HasOption(cmd, "-q:v", ToString(Clamp(1, 100, (51 - args.crf) * 2)))
      /\ QualityAt(args.crf) \in 1..100
      /\ \A c \in 0..51 : c >= args.crf => QualityAt(c) <= QualityAt(args.crf)
      /\ HasOption(cmd, "-allow_sw", "1")

\* A videotoolbox command at CRF 0, where the upper limit of the clamp acts.
WitC21 ==
    /\ mainPc = "built"
    /\ hw_encoder = "videotoolbox"
    /\ args.crf = 0
    /\ HasOption(cmd, "-q:v", "100")

\* ------------------------------------------------------------------ C22
\* The worker threads that are processing a job.
Busy == {w \in Workers : wjob[w] # 0}

\* The line of every job being processed is (index mod W) + 3, within
\* 3..W+2, and so neither a header line nor the summary line.
LayoutC22 ==
    \A w \in Busy :
      /\ max_workers >= 1
      /\ task_line[w] = (wjob[w] % max_workers) + 3
      /\ task_line[w] \in 3..(max_workers + 2)
      /\ task_line[w] \notin {1, 2, summary_line}

\* A job keeps its line while it is being processed.
StepC22 ==
    \A w \in Busy :
      w \in DOMAIN wjob' /\ wjob'[w] = wjob[w] => task_line'[w] = task_line[w]

\* C22: for every worker count W >= 1 and every dispatch index, the line
\* assigned to a job is (index mod W) + 3, lies in 3..W+2, is never a
\* header line (1, 2) nor the summary line (W+4), and does not change while
\* the job lives.
ThmC22 == []LayoutC22 /\ [][StepC22]_vars

\* A job whose index is larger than the worker count is on its line while
\* it writes its progress.
WitC22 ==
    \E w \in Workers :
      /\ wjob[w] > max_workers
      /\ wpc[w] = "progress_cs"
      /\ task_line[w] = (wjob[w] % max_workers) + 3

\* ------------------------------------------------------------------ C23
\* The number of jobs whose result has been appended to one of the lists.
Recorded == Len(processed_files) + Len(failed_files)

\* Every job returned normally from process_video.
AllReturned == \A i \in FileIndexes : i <= Len(futures) /\ futures[i] = "finished"

\* C23: the live summary line is written by the k-th job to finish before
\* its own result is appended: the counts it shows sum to k - 1 and neither
\* exceeds its list; when all N jobs returned normally the line is left
\* showing N - 1 while the final summary counts N.
InvC23 ==
    /\ live_summary = <<>> <=> Recorded = 0
    /\ live_summary # <<>> =>
         /\ live_summary[1] + live_summary[2] = Recorded - 1
         /\ live_summary[1] <= Len(processed_files)
         /\ live_summary[2] <= Len(failed_files)
    /\ SummaryPrinted /\ AllReturned =>
         /\ live_summary[1] + live_summary[2] = total_files - 1
         /\ Recorded = total_files

\* Three jobs returned, the final summary was printed, and the live line
\* still shows two.
WitC23 ==
    /\ SummaryPrinted
    /\ AllReturned
    /\ total_files = 3
    /\ live_summary # <<>>
    /\ live_summary[1] + live_summary[2] = 2

====
